---- MODULE Spec2Model ----
(***************************************************************************)
(* katzenpost/core, package crypto/cert: certificates that bind a payload  *)
(* to a type and an expiration and carry one or more signatures.           *)
(*                                                                         *)
(* Representation.  A byte is a natural number 0..255 and a byte string or *)
(* text is a sequence of bytes.  A uint64 is a sequence of four 16-bit     *)
(* limbs, least significant first, and a uint32 a sequence of two, so that *)
(* the 64-bit arithmetic of the verifiers keeps its width.  A serialized   *)
(* certificate is the sequence of CBOR data items the encoder emits, each  *)
(* item a pair <<major type, value>>.                                      *)
(***************************************************************************)
EXTENDS Integers, Sequences, FiniteSets, TLC

(***************************************************************************)
(* Constants of cert.go                                                    *)
(***************************************************************************)
CertVersion == 0

\* "ed25519"
CertKeyType == <<101, 100, 50, 53, 53, 49, 57>>

hourSeconds == 3600

(***************************************************************************)
(* Fixed-width unsigned integers                                           *)
(***************************************************************************)
LimbBase == 65536

U32Limbs == 2

U64Limbs == 4

\* The limbs of a natural number v < 2^31, least significant first.
RECURSIVE ToLimbs(_, _)
ToLimbs(v, n) ==
    IF n = 0 THEN <<>> ELSE <<v % LimbBase>> \o ToLimbs(v \div LimbBase, n - 1)

\* a * k + carry, exactly, as n limbs followed by the limbs of the last carry.
RECURSIVE MulLimbs(_, _, _)
MulLimbs(a, k, carry) ==
    IF a = <<>>
    THEN ToLimbs(carry, 2)
    ELSE LET p == a[1] * k + carry
         IN  <<p % LimbBase>> \o MulLimbs(Tail(a), k, p \div LimbBase)

\* Unsigned comparison a < b of two limb sequences of the same length.
RECURSIVE LimbsLess(_, _)
LimbsLess(a, b) ==
    IF a = <<>> THEN FALSE
    ELSE LET n == Len(a)
         IN  \/ a[n] < b[n]
             \/ a[n] = b[n] /\ LimbsLess(SubSeq(a, 1, n - 1), SubSeq(b, 1, n - 1))

\* binary.Write(message, binary.LittleEndian, x): each limb gives its low byte
\* and then its high byte.
RECURSIVE LittleEndian(_)
LittleEndian(a) ==
    IF a = <<>> THEN <<>>
    ELSE <<a[1] % 256, a[1] \div 256>> \o LittleEndian(Tail(a))

(***************************************************************************)
(* The Certificate and Signature structures                                *)
(***************************************************************************)
Signature(identity, payload) == [Identity |-> identity, Payload |-> payload]

Certificate(version, type, expiration, keyType, certified, signatures) ==
    [Version     |-> version,
     Type        |-> type,
     Expiration  |-> expiration,
     CertKeyType |-> keyType,
     Certified   |-> certified,
     Signatures  |-> signatures]

\* Certificate{}: the zero value a decoder starts from.
ZeroCertificate ==
    Certificate(ToLimbs(0, U32Limbs), <<>>, ToLimbs(0, U64Limbs), <<>>, <<>>, <<>>)

\* message that also covers the number of signatures.
messageWithSignatures(c) ==
    LittleEndian(c.Version) \o c.Type \o LittleEndian(c.Expiration)
        \o c.CertKeyType \o c.Certified \o <<Len(c.Signatures)>>

\* message that leaves out the key type, which is the same in every
\* certificate that CreateCertificate makes.
messageWithoutKeyType(c) ==
    LittleEndian(c.Version) \o c.Type \o LittleEndian(c.Expiration)
        \o c.Certified

\* message that writes the length of each text and byte field before it.
messageLengthPrefixed(c) ==
    LittleEndian(c.Version) \o <<Len(c.Type)>> \o c.Type
        \o LittleEndian(c.Expiration) \o <<Len(c.CertKeyType)>> \o c.CertKeyType
        \o <<Len(c.Certified)>> \o c.Certified

\* (c *Certificate) message(): version, type, expiration, key type and the
\* certified data, concatenated without separators.
message(c) ==
    LittleEndian(c.Version) \o c.Type \o LittleEndian(c.Expiration)
        \o c.CertKeyType \o c.Certified

(***************************************************************************)
(* crypto/eddsa: deterministic signatures, idealised.  A signature is the  *)
(* signer's tag followed by the signed message; it verifies under a public *)
(* key exactly when that key's owner made it over that message.            *)
(***************************************************************************)
Keys == 1..4

PublicKeyBytes(k) == <<200 + k, 7>>

Sign(k, mesg) == <<k>> \o mesg

Verify(k, sig, mesg) == sig = Sign(k, mesg)

(***************************************************************************)
(* The codec (CBOR): a blob is the sequence of data items of the encoding. *)
(* A struct is a map keyed by field name, the fields in the order of their *)
(* names; a slice is a definite-length array.                              *)
(***************************************************************************)
Item(major, value) == <<major, value>>

\* Field names, as text.
KCertKeyType == <<67, 101, 114, 116, 75, 101, 121, 84, 121, 112, 101>>

KCertified == <<67, 101, 114, 116, 105, 102, 105, 101, 100>>

KExpiration == <<69, 120, 112, 105, 114, 97, 116, 105, 111, 110>>

KSignatures == <<83, 105, 103, 110, 97, 116, 117, 114, 101, 115>>

KType == <<84, 121, 112, 101>>

KVersion == <<86, 101, 114, 115, 105, 111, 110>>

KIdentity == <<73, 100, 101, 110, 116, 105, 116, 121>>

KPayload == <<80, 97, 121, 108, 111, 97, 100>>

\* An unsigned integer item carries its value widened to 64 bits.
Widen(a) == a \o ToLimbs(0, U64Limbs - Len(a))

EncodeSignature(sig) ==
    <<Item("map", <<2>>),
      Item("text", KIdentity), Item("bytes", sig.Identity),
      Item("text", KPayload), Item("bytes", sig.Payload)>>

RECURSIVE EncodeSignatures(_)
EncodeSignatures(sigs) ==
    IF sigs = <<>> THEN <<>>
    ELSE EncodeSignature(Head(sigs)) \o EncodeSignatures(Tail(sigs))

\* The elements of a sequence in the opposite order.
RECURSIVE Reverse(_)
Reverse(q) ==
    IF q = <<>> THEN <<>> ELSE Append(Reverse(Tail(q)), Head(q))

\* Encode that writes the newest signature first.
EncodeNewestFirst(c) ==
    <<Item("map", <<6>>),
      Item("text", KCertKeyType), Item("text", c.CertKeyType),
      Item("text", KCertified), Item("bytes", c.Certified),
      Item("text", KExpiration), Item("uint", Widen(c.Expiration)),
      Item("text", KSignatures), Item("array", <<Len(c.Signatures)>>)>>
    \o EncodeSignatures(Reverse(c.Signatures))
    \o <<Item("text", KType), Item("text", c.Type),
         Item("text", KVersion), Item("uint", Widen(c.Version))>>

\* enc.Encode(&cert)
Encode(c) ==
    <<Item("map", <<6>>),
      Item("text", KCertKeyType), Item("text", c.CertKeyType),
      Item("text", KCertified), Item("bytes", c.Certified),
      Item("text", KExpiration), Item("uint", Widen(c.Expiration)),
      Item("text", KSignatures), Item("array", <<Len(c.Signatures)>>)>>
    \o EncodeSignatures(c.Signatures)
    \o <<Item("text", KType), Item("text", c.Type),
         Item("text", KVersion), Item("uint", Widen(c.Version))>>

\* The decoder's state: the items not yet read, the value built so far, and
\* whether decoding has failed.
DecState(rest, val, err) == [rest |-> rest, val |-> val, err |-> err]

Failed == DecState(<<>>, <<>>, TRUE)

IsItem(rest, major) == rest # <<>> /\ Head(rest)[1] = major

\* The fields of one Signature map with n entries left to read.
RECURSIVE DecodeSignatureFields(_, _, _)
DecodeSignatureFields(rest, n, sig) ==
    IF n = 0 THEN DecState(rest, sig, FALSE)
    ELSE IF ~IsItem(rest, "text") \/ Len(rest) < 2 THEN Failed
    ELSE LET key == rest[1][2]
             v   == rest[2]
             nxt == SubSeq(rest, 3, Len(rest))
         IN  IF key = KIdentity
             THEN IF v[1] = "bytes"
                  THEN DecodeSignatureFields(nxt, n - 1, [sig EXCEPT !.Identity = v[2]])
                  ELSE Failed
             ELSE IF key = KPayload
             THEN IF v[1] = "bytes"
                  THEN DecodeSignatureFields(nxt, n - 1, [sig EXCEPT !.Payload = v[2]])
                  ELSE Failed
             ELSE IF v[1] \in {"text", "bytes", "uint"}
             THEN DecodeSignatureFields(nxt, n - 1, sig)
             ELSE Failed

\* The n elements of the Signatures array.
RECURSIVE DecodeSignatures(_, _, _)
DecodeSignatures(rest, n, sigs) ==
    IF n = 0 THEN DecState(rest, sigs, FALSE)
    ELSE IF ~IsItem(rest, "map") THEN Failed
    ELSE LET d == DecodeSignatureFields(Tail(rest), Head(rest)[2][1],
                                        Signature(<<>>, <<>>))
         IN  IF d.err THEN Failed
             ELSE DecodeSignatures(d.rest, n - 1, Append(sigs, d.val))

\* The fields of the Certificate map with n entries left to read.  A field is
\* found by its name; a name that is no field of the structure is skipped.
RECURSIVE DecodeFields(_, _, _)
DecodeFields(rest, n, c) ==
    IF n = 0 THEN DecState(rest, c, FALSE)
    ELSE IF ~IsItem(rest, "text") \/ Len(rest) < 2 THEN Failed
    ELSE LET key == rest[1][2]
             v   == rest[2]
             nxt == SubSeq(rest, 3, Len(rest))
         IN  IF key = KCertKeyType
             THEN IF v[1] = "text"
                  THEN DecodeFields(nxt, n - 1, [c EXCEPT !.CertKeyType = v[2]])
                  ELSE Failed
             ELSE IF key = KCertified
             THEN IF v[1] = "bytes"
                  THEN DecodeFields(nxt, n - 1, [c EXCEPT !.Certified = v[2]])
                  ELSE Failed
             ELSE IF key = KExpiration
             THEN IF v[1] = "uint"
                  THEN DecodeFields(nxt, n - 1, [c EXCEPT !.Expiration = v[2]])
                  ELSE Failed
             ELSE IF key = KSignatures
             THEN IF v[1] = "array"
                  THEN LET d == DecodeSignatures(nxt, v[2][1], <<>>)
                       IN  IF d.err THEN Failed
                           ELSE DecodeFields(d.rest, n - 1,
                                             [c EXCEPT !.Signatures = d.val])
                  ELSE Failed
             ELSE IF key = KType
             THEN IF v[1] = "text"
                  THEN DecodeFields(nxt, n - 1, [c EXCEPT !.Type = v[2]])
                  ELSE Failed
             ELSE IF key = KVersion
             THEN IF v[1] = "uint"
                       /\ SubSeq(v[2], U32Limbs + 1, U64Limbs)
                              = ToLimbs(0, U64Limbs - U32Limbs)
                  THEN DecodeFields(nxt, n - 1,
                                    [c EXCEPT !.Version = SubSeq(v[2], 1, U32Limbs)])
                  ELSE Failed
             ELSE IF v[1] \in {"text", "bytes", "uint"}
             THEN DecodeFields(nxt, n - 1, c)
             ELSE Failed

\* dec.Decode(&cert): err is TRUE when the blob does not decode; items after
\* the certificate's map are not read.
Decode(rawCert) ==
    IF ~IsItem(rawCert, "map") THEN [err |-> TRUE, cert |-> ZeroCertificate]
    ELSE LET d == DecodeFields(Tail(rawCert), Head(rawCert)[2][1], ZeroCertificate)
         IN  IF d.err THEN [err |-> TRUE, cert |-> ZeroCertificate]
             ELSE [err |-> FALSE, cert |-> d.val]

(***************************************************************************)
(* State                                                                   *)
(*   blob     the blob the caller holds (no items before the first call)   *)
(*   now      the wall clock                                               *)
(*   last     the last call since the clock last advanced: operation, key, *)
(*            input and output blob, result                                *)
(*   origin   how the held blob came about: "issued" by CreateCertificate  *)
(*            and co-signed, "tampered" or "truncated" on the way,         *)
(*            "endorsed" (tampered and then co-signed) or "foreign"        *)
(*   issue    the arguments of the call that created the held blob         *)
(*   signers  the keys that signed the held blob, in call order            *)
(*   pq       the priority queue: its heap and its index map               *)
(*   qlast    the last call on the queue: operation, argument, the entry   *)
(*            returned, whether it panicked                                *)
(*   wall     the clock that Clock.Now reads, in seconds since the Unix    *)
(*            epoch                                                        *)
(*   reading  the call of Clock.Now: where it stands, its two readings of  *)
(*            the clock and what it returned                               *)
(*   inEpoch  the last call of IsInEpoch: arguments and result             *)
(*   calls    the calls of package cert that run at the same time, one per *)
(*            caller: where the call stands, operation, key, input blob    *)
(*            and result                                                   *)
(*   certs    the Certificate each running call has built or decoded       *)
(***************************************************************************)
VARIABLES blob, now, last, origin, issue, signers, pq, qlast, wall, reading,
          inEpoch, calls, certs

certVars == <<blob, now, last, origin, issue, signers>>

queueVars == <<pq, qlast>>

epochVars == <<wall, reading, inEpoch>>

callVars == <<calls, certs>>

vars == <<certVars, queueVars, epochVars, callVars>>

\* What the callers of package cert, of package queue and of package
\* epochtime leave alone.
besideCert == <<queueVars, epochVars, callVars>>

besideQueue == <<certVars, epochVars, callVars>>

besideEpoch == <<certVars, queueVars, callVars>>

(***************************************************************************)
(* The operations of cert.go                                               *)
(***************************************************************************)
\* A reading of the wall clock: whole seconds since the Unix epoch and the
\* nanoseconds within the second.
Time(sec, nsec) == [sec |-> sec, nsec |-> nsec]

\* cert.Expiration*hourSeconds: the product of two uint64, kept to 64 bits.
ExpirationSeconds(expiration) ==
    SubSeq(MulLimbs(expiration, hourSeconds, 0), 1, U64Limbs)

\* Expired with "not after" in place of Before.
ExpiredNotAfter(expiration, t) ==
    LET secs     == ExpirationSeconds(expiration)
        negative == secs[U64Limbs] >= LimbBase \div 2
        current  == ToLimbs(t.sec, U64Limbs)
    IN  negative \/ ~LimbsLess(current, secs)

\* Expired with After in place of Before.
ExpiredAfter(expiration, t) ==
    LET secs     == ExpirationSeconds(expiration)
        negative == secs[U64Limbs] >= LimbBase \div 2
        current  == ToLimbs(t.sec, U64Limbs)
    IN  ~negative /\ LimbsLess(current, secs)

\* time.Unix(int64(cert.Expiration*hourSeconds), 0).Before(time.Now()): the
\* product read as a signed second count; t is at or after the epoch.  (The
\* time package adds the seconds from year 1 to 1970 to the count; no count
\* of this model comes within that distance of 2^63.)
Expired(expiration, t) ==
    LET secs     == ExpirationSeconds(expiration)
        negative == secs[U64Limbs] >= LimbBase \div 2
        current  == ToLimbs(t.sec, U64Limbs)
    IN  \/ negative
        \/ LimbsLess(secs, current)
        \/ secs = current /\ 0 < t.nsec

Result(ok, err) == [ok |-> ok, err |-> err]

\* CreateCertificate(signingKey, toSign, certType, expiration)
CreateCertificate(signingKey, toSign, certType, expiration) ==
    LET cert == Certificate(ToLimbs(CertVersion, U32Limbs), certType, expiration,
                            CertKeyType, toSign, <<>>)
        mesg == message(cert)
    IN  Encode([cert EXCEPT !.Signatures =
                   <<Signature(PublicKeyBytes(signingKey), Sign(signingKey, mesg))>>])

\* VerifyCertificate that looks at the expiration before it counts the
\* signatures.
VerifyCertificateExpiryFirst(rawCert, publicKey, t) ==
    LET d    == Decode(rawCert)
        cert == d.cert
    IN  IF d.err THEN Result(FALSE, "malformed")
        ELSE IF Expired(cert.Expiration, t) THEN Result(FALSE, "expired")
        ELSE IF Len(cert.Signatures) # 1 THEN Result(FALSE, "count")
        ELSE Result(Verify(publicKey, cert.Signatures[1].Payload, message(cert)),
                    "none")

\* VerifyCertificate(rawCert, publicKey), the clock reading t.
VerifyCertificate(rawCert, publicKey, t) ==
    LET d    == Decode(rawCert)
        cert == d.cert
    IN  IF d.err THEN Result(FALSE, "malformed")
        ELSE IF Len(cert.Signatures) # 1 THEN Result(FALSE, "count")
        ELSE IF Expired(cert.Expiration, t) THEN Result(FALSE, "expired")
        ELSE Result(Verify(publicKey, cert.Signatures[1].Payload, message(cert)),
                    "none")

\* The loop of VerifyMulti when it takes the entry at i whatever its identity.
VerifyMultiFromAnyIdentity(cert, publicKey, i) ==
    IF i > Len(cert.Signatures) THEN Result(FALSE, "none")
    ELSE Result(Verify(publicKey, cert.Signatures[i].Payload, message(cert)), "none")

\* The loop of VerifyMulti over cert.Signatures from index i on.
RECURSIVE VerifyMultiFrom(_, _, _)
VerifyMultiFrom(cert, publicKey, i) ==
    IF i > Len(cert.Signatures) THEN Result(FALSE, "none")
    ELSE IF PublicKeyBytes(publicKey) = cert.Signatures[i].Identity
    THEN Result(Verify(publicKey, cert.Signatures[i].Payload, message(cert)), "none")
    ELSE VerifyMultiFrom(cert, publicKey, i + 1)

\* VerifyMulti(rawCert, publicKey), the clock reading t.
VerifyMulti(rawCert, publicKey, t) ==
    LET d    == Decode(rawCert)
        cert == d.cert
    IN  IF d.err THEN Result(FALSE, "malformed")
        ELSE IF Expired(cert.Expiration, t) THEN Result(FALSE, "expired")
        ELSE VerifyMultiFrom(cert, publicKey, 1)

\* SignMultiCertificate that adds no entry for an identity the list has.
SignMultiCertificateOnce(signingKey, rawCert) ==
    LET d    == Decode(rawCert)
        cert == d.cert
        sig  == Signature(PublicKeyBytes(signingKey),
                          Sign(signingKey, message(cert)))
    IN  IF d.err THEN [out |-> <<>>, err |-> "malformed"]
        ELSE IF \E i \in DOMAIN cert.Signatures :
                    cert.Signatures[i].Identity = sig.Identity
        THEN [out |-> Encode(cert), err |-> "none"]
        ELSE [out |-> Encode([cert EXCEPT !.Signatures = Append(@, sig)]),
              err |-> "none"]

\* SignMultiCertificate that refuses a certificate the verifiers would call
\* expired.
SignMultiCertificateUnexpired(signingKey, rawCert) ==
    LET d    == Decode(rawCert)
        cert == d.cert
        sig  == Signature(PublicKeyBytes(signingKey),
                          Sign(signingKey, message(cert)))
    IN  IF d.err THEN [out |-> <<>>, err |-> "malformed"]
        ELSE IF Expired(cert.Expiration, now) THEN [out |-> <<>>, err |-> "expired"]
        ELSE [out |-> Encode([cert EXCEPT !.Signatures = Append(@, sig)]),
              err |-> "none"]

\* SignMultiCertificate(signingKey, rawCert): the new blob, or an error and
\* no blob.
SignMultiCertificate(signingKey, rawCert) ==
    LET d    == Decode(rawCert)
        cert == d.cert
        sig  == Signature(PublicKeyBytes(signingKey),
                          Sign(signingKey, message(cert)))
    IN  IF d.err THEN [out |-> <<>>, err |-> "malformed"]
        ELSE [out |-> Encode([cert EXCEPT !.Signatures = Append(@, sig)]),
              err |-> "none"]

(***************************************************************************)
(* Package queue (priority_queue.go): a min-heap of entries and a map from *)
(* priority to heap index.  Indexes are Go's, counted from 0.  A queue is  *)
(* the pair of the heap slice and the map; the map is a function on the    *)
(* priorities with NoIndex at the keys it does not hold.                   *)
(***************************************************************************)
Entry(value, priority) == [Value |-> value, Priority |-> priority]

Priorities == 1..3

Values == {1, 2}

NoIndex == -1

Queue(h, index) == [heap |-> h, m |-> index]

\* New(): an empty heap and an empty map.
New == Queue(<<>>, [p \in Priorities |-> NoIndex])

\* What a call leaves and returns: the queue, the entry returned (no element
\* for nil), and whether the call panicked (index out of range).
Outcome(q, ret, panic) == [q |-> q, ret |-> ret, panic |-> panic]

\* q.heap[i]
At(q, i) == q.heap[i + 1]

\* q.m[p] as a value: the zero value for a key the map does not hold.
Lookup(q, p) == IF q.m[p] = NoIndex THEN 0 ELSE q.m[p]

\* Less that orders by value.
LessByValue(q, i, j) == At(q, i).Value < At(q, j).Value

\* (q *priorityQueueImpl) Less(i, j)
Less(q, i, j) == At(q, i).Priority < At(q, j).Priority

\* (q *priorityQueueImpl) Push(x)
Push(q, x) ==
    Queue(Append(q.heap, x), [q.m EXCEPT ![x.Priority] = Len(q.heap)])

\* (q *priorityQueueImpl) Swap(i, j): the entries change places, then the map
\* values at their priorities are exchanged, both read before either is
\* written and the second written last.
Swap(q, i, j) ==
    IF i < 0 \/ j < 0 THEN q
    ELSE LET h  == [q.heap EXCEPT ![i + 1] = q.heap[j + 1], ![j + 1] = q.heap[i + 1]]
             pi == h[i + 1].Priority
             pj == h[j + 1].Priority
         IN  Queue(h, [p \in Priorities |->
                          IF p = pj THEN Lookup(q, pi)
                          ELSE IF p = pi THEN Lookup(q, pj)
                          ELSE q.m[p]])

\* (q *priorityQueueImpl) Pop(): the last entry leaves the slice and its
\* priority leaves the map.
priorityQueueImplPop(q) ==
    IF Len(q.heap) <= 0 THEN Outcome(q, <<>>, FALSE)
    ELSE LET n == Len(q.heap)
             e == q.heap[n]
         IN  Outcome(Queue(SubSeq(q.heap, 1, n - 1), [q.m EXCEPT ![e.Priority] = NoIndex]),
                     <<e>>, FALSE)

\* (j - 1) / 2 with Go's division, which rounds toward zero.
Parent(j) == IF j >= 1 THEN (j - 1) \div 2 ELSE 0 - ((1 - j) \div 2)

\* container/heap up(h, j)
RECURSIVE heapUp(_, _)
heapUp(q, j) ==
    LET i == Parent(j)
    IN  IF i = j THEN q
        ELSE IF ~Less(q, j, i) THEN q
        ELSE heapUp(Swap(q, i, j), i)

\* The loop of container/heap down(h, i0, n) from index i: the queue it
\* leaves and the index it ends at.
RECURSIVE heapDownLoop(_, _, _)
heapDownLoop(q, i, n) ==
    LET j1 == 2 * i + 1
    IN  IF j1 >= n \/ j1 < 0 THEN [q |-> q, i |-> i]
        ELSE LET j2 == j1 + 1
                 j  == IF j2 < n /\ Less(q, j2, j1) THEN j2 ELSE j1
             IN  IF ~Less(q, j, i) THEN [q |-> q, i |-> i]
                 ELSE heapDownLoop(Swap(q, i, j), j, n)

\* container/heap down(h, i0, n): the queue and whether the entry moved.
heapDown(q, i0, n) ==
    LET r == heapDownLoop(q, i0, n)
    IN  [q |-> r.q, moved |-> r.i > i0]

\* container/heap Push(h, x)
heapPush(q, x) == heapUp(Push(q, x), Len(q.heap))

\* container/heap Pop(h)
heapPop(q) ==
    LET n == Len(q.heap) - 1
    IN  priorityQueueImplPop(heapDown(Swap(q, 0, n), 0, n).q)

\* container/heap Remove(h, i).  An index past the end panics in Swap and an
\* index below -1 in Less, before anything is written; index -1 passes Swap,
\* down and up untouched and the last entry is popped.
heapRemove(q, i) ==
    LET n == Len(q.heap) - 1
    IN  IF i > n \/ i < -1 THEN Outcome(q, <<>>, TRUE)
        ELSE IF n = i THEN priorityQueueImplPop(q)
        ELSE LET d == heapDown(Swap(q, i, n), i, n)
             IN  priorityQueueImplPop(IF d.moved THEN d.q ELSE heapUp(d.q, i))

\* DequeueIndex without the test of the length.
DequeueIndexUnguarded(q, index) == heapRemove(q, index)

\* (q *priorityQueueImpl) DequeueIndex(index)
DequeueIndex(q, index) ==
    IF Len(q.heap) <= 0 THEN Outcome(q, <<>>, FALSE)
    ELSE heapRemove(q, index)

\* (q *PriorityQueue) Enqueue(priority, value)
Enqueue(q, priority, value) == heapPush(q, Entry(value, priority))

\* (q *PriorityQueue) DequeueRandom(r), r.Intn(q.q.Len()) giving index.
DequeueRandom(q, index) ==
    IF Len(q.heap) <= 0 THEN Outcome(q, <<>>, FALSE)
    ELSE heapRemove(q, index)

\* The loop of FilterOnce from index i; filter is the set of the values the
\* filter function accepts.
RECURSIVE FilterOnceFrom(_, _, _)
FilterOnceFrom(q, filter, i) ==
    IF ~(i < Len(q.heap)) THEN Outcome(q, <<>>, FALSE)
    ELSE IF At(q, i).Value \in filter THEN DequeueIndex(q, i)
    ELSE FilterOnceFrom(q, filter, i + 1)

\* (q *PriorityQueue) FilterOnce(filter)
FilterOnce(q, filter) == FilterOnceFrom(q, filter, 0)

\* The number of times the loop of FilterOnce calls the filter from index i
\* on.
RECURSIVE FilterCallsFrom(_, _, _)
FilterCallsFrom(q, filter, i) ==
    IF ~(i < Len(q.heap)) THEN 0
    ELSE IF At(q, i).Value \in filter THEN 1
    ELSE 1 + FilterCallsFrom(q, filter, i + 1)

FilterCalls(q, filter) == FilterCallsFrom(q, filter, 0)

\* (q *PriorityQueue) Peek()
Peek(q) ==
    IF Len(q.heap) <= 0 THEN Outcome(q, <<>>, FALSE)
    ELSE Outcome(q, <<At(q, 0)>>, FALSE)

\* (q *PriorityQueue) PeekIndex(i): an index outside the heap panics.
PeekIndex(q, i) ==
    IF Len(q.heap) <= 0 THEN Outcome(q, <<>>, FALSE)
    ELSE IF i < 0 \/ i >= Len(q.heap) THEN Outcome(q, <<>>, TRUE)
    ELSE Outcome(q, <<At(q, i)>>, FALSE)

\* (q *PriorityQueue) Pop()
Pop(q) == heapPop(q)

\* (q *PriorityQueue) Remove(index)
Remove(q, index) == DequeueIndex(q, index)

\* (q *PriorityQueue) RemovePriority(priority)
RemovePriority(q, priority) ==
    IF q.m[priority] # NoIndex THEN DequeueIndex(q, q.m[priority])
    ELSE Outcome(q, <<>>, FALSE)

(***************************************************************************)
(* Package epochtime (time.go).  Clock.Now is modelled in whole seconds.   *)
(* IsInEpoch keeps the width of its arithmetic: a time.Duration is a       *)
(* signed 64-bit count of nanoseconds and a time.Time a signed 64-bit      *)
(* count of seconds since year 1 with the nanoseconds of the second; both  *)
(* 64-bit numbers are four limbs in two's complement.                      *)
(***************************************************************************)
\* Period = 3 * time.Hour, in seconds.
Period == 10800

\* Epoch = time.Date(2017, 6, 1, 0, 0, 0, 0, time.UTC), in seconds since the
\* Unix epoch.
Epoch == 1496275200

\* A second is 1000 * 1000 * 1000 nanoseconds.
Thousand == 1000

Billion == Thousand * Thousand * Thousand

\* The seconds from year 1 to 1970, 62135596800, which time.Unix adds.
unixToInternal == <<63232, 30609, 14, 0>>

\* a + b + carry, to the width of a.
RECURSIVE AddLimbs(_, _, _)
AddLimbs(a, b, carry) ==
    IF a = <<>> THEN <<>>
    ELSE LET sum == a[1] + b[1] + carry
         IN  <<sum % LimbBase>> \o AddLimbs(Tail(a), Tail(b), sum \div LimbBase)

Add64(a, b) == AddLimbs(a, b, 0)

\* a * k for a 64-bit a, kept to 64 bits.
Mul64(a, k) == SubSeq(MulLimbs(a, k, 0), 1, U64Limbs)

\* -a in two's complement.
Neg64(a) ==
    AddLimbs([i \in 1..U64Limbs |-> LimbBase - 1 - a[i]], ToLimbs(1, U64Limbs), 0)

\* The sign bit of a signed 64-bit number.
IsNegative(a) == a[U64Limbs] >= LimbBase \div 2

\* a < b for two signed 64-bit numbers.
SignedLess(a, b) ==
    \/ IsNegative(a) /\ ~IsNegative(b)
    \/ IsNegative(a) = IsNegative(b) /\ LimbsLess(a, b)

\* Quotient and remainder of the unsigned a by k, the limbs taken from the
\* most significant down, rem the remainder carried in.
RECURSIVE DivLimbs(_, _, _)
DivLimbs(a, k, rem) ==
    IF a = <<>> THEN [q |-> <<>>, r |-> rem]
    ELSE LET n    == Len(a)
             cur  == rem * LimbBase + a[n]
             rest == DivLimbs(SubSeq(a, 1, n - 1), k, cur % k)
         IN  [q |-> Append(rest.q, cur \div k), r |-> rest.r]

\* Quotient and remainder of the unsigned a by 1e9.
DivBillion(a) ==
    LET d1 == DivLimbs(a, Thousand, 0)
        d2 == DivLimbs(d1.q, Thousand, 0)
        d3 == DivLimbs(d2.q, Thousand, 0)
    IN  [q |-> d3.q, r |-> d1.r + Thousand * d2.r + Thousand * Thousand * d3.r]

\* A time.Time without monotonic reading: seconds since year 1 and the
\* nanoseconds of the second.
WallTime(sec, nsec) == [sec |-> sec, nsec |-> nsec]

\* time.Unix(sec, 0): the sum sec + unixToInternal is kept to 64 bits.
Unix(sec) == WallTime(Add64(sec, unixToInternal), 0)

\* (t Time) Add(d): d / 1e9 and d % 1e9 round toward zero, then the
\* nanoseconds are brought back into 0 .. 1e9 - 1.  (addSec saturates when the
\* sum of the seconds overflows; a duration is too short for that.)
Add(t, d) ==
    LET mag  == DivBillion(IF IsNegative(d) THEN Neg64(d) ELSE d)
        dsec == IF IsNegative(d) THEN Neg64(mag.q) ELSE mag.q
        nsec == t.nsec + (IF IsNegative(d) THEN 0 - mag.r ELSE mag.r)
    IN  IF nsec >= Billion
        THEN WallTime(Add64(Add64(t.sec, dsec), ToLimbs(1, U64Limbs)), nsec - Billion)
        ELSE IF nsec < 0
        THEN WallTime(Add64(Add64(t.sec, dsec), Neg64(ToLimbs(1, U64Limbs))),
                      nsec + Billion)
        ELSE WallTime(Add64(t.sec, dsec), nsec)

\* (t Time) Equal(u), After(u), Before(u)
Equal(t, u) == t.sec = u.sec /\ t.nsec = u.nsec

After(t, u) == SignedLess(u.sec, t.sec) \/ (t.sec = u.sec /\ t.nsec > u.nsec)

Before(t, u) == SignedLess(t.sec, u.sec) \/ (t.sec = u.sec /\ t.nsec < u.nsec)

\* Epoch as a time.Time.
EpochTime == Unix(ToLimbs(Epoch, U64Limbs))

\* time.Duration(e) * Period: the product in nanoseconds, kept to 64 bits.
TimesPeriod(e) == Mul64(Mul64(Mul64(Mul64(e, Period), Thousand), Thousand), Thousand)

\* IsInEpoch(e, t)
IsInEpoch(e, t) ==
    LET deltaStart == TimesPeriod(e)
        deltaEnd   == TimesPeriod(Add64(e, ToLimbs(1, U64Limbs)))
        startTime  == Add(EpochTime, deltaStart)
        endTime    == Add(EpochTime, deltaEnd)
        tt         == Unix(t)
    IN  IF Equal(tt, startTime) THEN TRUE
        ELSE After(tt, startTime) /\ Before(tt, endTime)

\* What Clock.Now returns, or that it panicked.
Epochs(current, elapsed, till, panic) ==
    [current |-> current, elapsed |-> elapsed, till |-> till, panic |-> panic]

\* (c *Clock) Now() with cached the reading c.c.Now() gave and since the
\* reading c.c.Since(Epoch) took, both in seconds since the Unix epoch.
ClockNow(cached, since) ==
    LET fromEpoch == since - Epoch
        current   == fromEpoch \div Period
        base      == Epoch + current * Period
    IN  IF fromEpoch < 0 THEN Epochs(0, 0, 0, TRUE)
        ELSE Epochs(current, cached - base, (base + Period) - cached, FALSE)

(***************************************************************************)
(* The callers' inputs                                                     *)
(***************************************************************************)
MaxSigs == 3

MaxHour == 1

\* The keys that issue certificates; every key of Keys co-signs and verifies.
IssuerKeys == {1, 2}

\* The type and the payload of a certificate: "a" with one byte, "ab" with two.
Subjects == {<<<<97>>, <<1>>>>, <<<<97, 98>>, <<57, 1>>>>}

\* The least number of hours whose second count exceeds 2^63 - 1.
OverflowHours == <<24176, 15437, 6699, 9>>

\* The least number of hours whose second count exceeds 2^64 - 1.
WrapHours == <<48352, 30874, 13398, 18>>

Hours(h) == ToLimbs(h, U64Limbs)

Expirations == {Hours(1), Hours(2), OverflowHours, WrapHours}

Clocks == {Time(h * hourSeconds, ns) : h \in 1..MaxHour, ns \in {0, 1}}

Range(f) == {f[i] : i \in DOMAIN f}

TimeLess(t, u) == t.sec < u.sec \/ (t.sec = u.sec /\ t.nsec < u.nsec)

\* x with bit b flipped.
FlipBit(x, b) == IF (x \div 2^b) % 2 = 1 THEN x - 2^b ELSE x + 2^b

\* The places of a field where a bit is flipped: the lowest bit of its first
\* element and the highest bit of its last.
Spots(field, width) == {<<1, 0>>, <<Len(field), width - 1>>}

FlipAt(field, spot) == [field EXCEPT ![spot[1]] = FlipBit(@, spot[2])]

\* "ed2551"
OtherKeyType == <<101, 100, 50, 53, 53, 49>>

(***************************************************************************)
(* The callers of package cert                                             *)
(***************************************************************************)
Call(op, key, in, out, ok, err) ==
    [op |-> op, key |-> key, in |-> in, out |-> out, ok |-> ok, err |-> err]

NoCall == Call("none", 0, <<>>, <<>>, FALSE, "none")

Issue(key, toSign, certType, expiration) ==
    [key |-> key, toSign |-> toSign, certType |-> certType, expiration |-> expiration]

QueueCall(op, arg, ret, panic) ==
    [op |-> op, arg |-> arg, ret |-> ret, panic |-> panic]

NoQueueCall == QueueCall("none", <<>>, <<>>, FALSE)

\* The callers that call package cert at the same time, each with a key of
\* its own.
Procs == {1, 2}

InFlight(pc, op, key, in, out, ok, err) ==
    [pc |-> pc, op |-> op, key |-> key, in |-> in, out |-> out, ok |-> ok,
     err |-> err]

Idle == InFlight("idle", "none", 0, <<>>, <<>>, FALSE, "none")

Reading(pc, cached, since, ret) ==
    [pc |-> pc, cached |-> cached, since |-> since, ret |-> ret]

NoReading == Reading("idle", 0, 0, Epochs(0, 0, 0, FALSE))

InEpochCall(called, e, t, ret) == [called |-> called, e |-> e, t |-> t, ret |-> ret]

NoInEpochCall == InEpochCall(FALSE, ToLimbs(0, U64Limbs), ToLimbs(0, U64Limbs), FALSE)

Init ==
    /\ blob = <<>>
    /\ now \in Clocks
    /\ last = NoCall
    /\ origin = "none"
    /\ issue = Issue(0, <<>>, <<>>, Hours(0))
    /\ signers = <<>>
    /\ pq = New
    /\ qlast = NoQueueCall
    /\ wall = Epoch
    /\ reading = NoReading
    /\ inEpoch = NoInEpochCall
    /\ calls = [p \in Procs |-> Idle]
    /\ certs = [p \in Procs |-> ZeroCertificate]

\* A caller issues a certificate with a key of K that expires at an hour of E.
Create(K, E) ==
    \E k \in K, s \in Subjects, e \in E :
        LET out == CreateCertificate(k, s[2], s[1], e)
        IN  /\ origin = "none"
            /\ blob' = out
            /\ last' = Call("CreateCertificate", k, <<>>, out, TRUE, "none")
            /\ origin' = "issued"
            /\ issue' = Issue(k, s[2], s[1], e)
            /\ signers' = <<k>>
            /\ UNCHANGED now
            /\ UNCHANGED besideCert

\* A caller co-signs the blob it holds with a key of K and keeps the result.
CoSign(K) ==
    \E k \in K :
        LET r == SignMultiCertificate(k, blob)
        IN  /\ Len(signers) < MaxSigs
            /\ last' = Call("SignMultiCertificate", k, blob, r.out, r.err = "none",
                            r.err)
            /\ IF r.err = "none"
               THEN /\ blob' = r.out
                    /\ signers' = Append(signers, k)
                    /\ origin' = IF origin = "tampered" THEN "endorsed" ELSE origin
               ELSE UNCHANGED <<blob, signers, origin>>
            /\ UNCHANGED <<now, issue>>
            /\ UNCHANGED besideCert

\* A caller checks the blob it holds against the public key of a key of K
\* with the strict verifier.
VerifyStrict(K) ==
    \E k \in K :
        LET r == VerifyCertificate(blob, k, now)
        IN  /\ last' = Call("VerifyCertificate", k, <<>>, <<>>, r.ok, r.err)
            /\ UNCHANGED <<blob, now, origin, issue, signers>>
            /\ UNCHANGED besideCert

\* The same with the multi-signature verifier.
VerifyAny(K) ==
    \E k \in K :
        LET r == VerifyMulti(blob, k, now)
        IN  /\ last' = Call("VerifyMulti", k, <<>>, <<>>, r.ok, r.err)
            /\ UNCHANGED <<blob, now, origin, issue, signers>>
            /\ UNCHANGED besideCert

\* The blob is altered on its way to the verifier: one bit of one signed
\* field is flipped and the blob is serialized again with its signatures.
Tamper ==
    /\ origin = "issued"
    /\ LET c == Decode(blob).cert
       IN  \/ \E s \in Spots(c.Type, 8) :
                blob' = Encode([c EXCEPT !.Type = FlipAt(@, s)])
           \/ \E s \in Spots(c.Expiration, 16) :
                blob' = Encode([c EXCEPT !.Expiration = FlipAt(@, s)])
           \/ \E s \in Spots(c.CertKeyType, 8) :
                blob' = Encode([c EXCEPT !.CertKeyType = FlipAt(@, s)])
           \/ \E s \in Spots(c.Certified, 8) :
                blob' = Encode([c EXCEPT !.Certified = FlipAt(@, s)])
    /\ origin' = "tampered"
    /\ last' = NoCall
    /\ UNCHANGED <<now, issue, signers>>
    /\ UNCHANGED besideCert

\* A blob arrives that another implementation of the format issued: any
\* version and key type, signed by key k over its own message, the entry
\* naming key i as its signer.
Foreign(K, E) ==
    \E k \in K, i \in K, v \in {CertVersion, CertVersion + 1},
       kt \in {CertKeyType, OtherKeyType}, e \in E :
        LET c == Certificate(ToLimbs(v, U32Limbs), <<97>>, e, kt, <<57, 1>>, <<>>)
            out == Encode([c EXCEPT !.Signatures =
                              <<Signature(PublicKeyBytes(i), Sign(k, message(c)))>>])
        IN  /\ origin = "none"
            /\ blob' = out
            /\ origin' = "foreign"
            /\ issue' = Issue(k, <<57, 1>>, <<97>>, e)
            /\ signers' = <<k>>
            /\ last' = NoCall
            /\ UNCHANGED now
            /\ UNCHANGED besideCert

\* The lengths a blob is cut to: nothing, the head of the certificate's map,
\* the map up to the head of the signature list, all but the last item.
Cuts(raw) == {0, 1, 9, Len(raw) - 1}

\* The blob loses its end on its way to the caller.
Truncate ==
    /\ origin = "issued"
    /\ \E n \in Cuts(blob) : blob' = SubSeq(blob, 1, n)
    /\ origin' = "truncated"
    /\ last' = NoCall
    /\ UNCHANGED <<now, issue, signers>>
    /\ UNCHANGED besideCert

\* Time passes; the result of the last call has been taken.
Tick ==
    /\ \E t \in Clocks : TimeLess(now, t) /\ now' = t
    /\ last' = NoCall
    /\ UNCHANGED <<blob, origin, issue, signers>>
    /\ UNCHANGED besideCert

\* The life of one certificate: issued, co-signed by keys that have not signed
\* it yet, verified as time passes.
Next ==
    \/ Create(IssuerKeys, Expirations)
    \/ CoSign(Keys \ Range(signers))
    \/ VerifyStrict(Keys)
    \/ VerifyAny(Keys)
    \/ Tick

Spec == Init /\ [][Next]_vars

\* The same with blobs that were altered or that this package did not issue,
\* and with keys that sign a blob again.
NextOpen ==
    \/ Create(IssuerKeys, {Hours(2)})
    \/ CoSign(IssuerKeys)
    \/ VerifyStrict(IssuerKeys)
    \/ VerifyAny(IssuerKeys)
    \/ Tamper
    \/ Foreign(IssuerKeys, {Hours(2)})
    \/ Tick

SpecOpen == Init /\ [][NextOpen]_vars

\* Blobs that expire while they are held and that arrive altered or cut.
NextWire ==
    \/ Create(IssuerKeys, {Hours(1)})
    \/ CoSign(IssuerKeys)
    \/ VerifyStrict(IssuerKeys)
    \/ VerifyAny(IssuerKeys)
    \/ Tamper
    \/ Truncate
    \/ Tick

SpecWire == Init /\ [][NextWire]_vars

\* The least number of hours whose second count exceeds 2^64 - 1 by more than
\* an hour: the product wraps to 7184 s.
WrapLaterHours == <<48353, 30874, 13398, 18>>

Lifetimes == {Hours(1), Hours(2), OverflowHours, WrapLaterHours}

\* The clock readings of a blob that is held for an hour more.
Ages == {Time(h * hourSeconds, ns) : h \in 1..(MaxHour + 1), ns \in {0, 1}}

\* Time passes while the blob is held.
Age ==
    /\ \E t \in Ages : TimeLess(now, t) /\ now' = t
    /\ last' = NoCall
    /\ UNCHANGED <<blob, origin, issue, signers>>
    /\ UNCHANGED besideCert

\* One certificate verified again and again as it ages.
NextAging ==
    \/ Create(IssuerKeys, Lifetimes)
    \/ CoSign(IssuerKeys \ Range(signers))
    \/ VerifyStrict(IssuerKeys)
    \/ VerifyAny(IssuerKeys)
    \/ Age

SpecAging == Init /\ [][NextAging]_vars

\* Blobs whose list names a signer more than once, some altered before the
\* signer signs again.
NextRepeat ==
    \/ Create(IssuerKeys, {Hours(2), OverflowHours})
    \/ CoSign(IssuerKeys)
    \/ VerifyAny(IssuerKeys)
    \/ Tamper
    \/ Tick

SpecRepeat == Init /\ [][NextRepeat]_vars

(***************************************************************************)
(* The callers of package queue                                            *)
(***************************************************************************)
MaxQueue == 3

\* A caller enqueues a value at a priority, also at one the queue holds.
CallEnqueue ==
    \E p \in Priorities, v \in Values :
        /\ Len(pq.heap) < MaxQueue
        /\ pq' = Enqueue(pq, p, v)
        /\ qlast' = QueueCall("Enqueue", <<p, v>>, <<>>, FALSE)
        /\ UNCHANGED besideQueue

CallPeek ==
    LET r == Peek(pq)
    IN  /\ pq' = r.q
        /\ qlast' = QueueCall("Peek", <<>>, r.ret, r.panic)
        /\ UNCHANGED besideQueue

\* PeekIndex with the first index or the index after the last.
CallPeekIndex ==
    \E index \in {0, Len(pq.heap)} :
        LET r == PeekIndex(pq, index)
        IN  /\ pq' = r.q
            /\ qlast' = QueueCall("PeekIndex", <<index>>, r.ret, r.panic)
            /\ UNCHANGED besideQueue

CallPop ==
    LET r == Pop(pq)
    IN  /\ pq' = r.q
        /\ qlast' = QueueCall("Pop", <<>>, r.ret, r.panic)
        /\ UNCHANGED besideQueue

\* Remove with an index of the heap, the index before the first or the index
\* after the last.
CallRemove ==
    \E index \in -1..Len(pq.heap) :
        LET r == Remove(pq, index)
        IN  /\ pq' = r.q
            /\ qlast' = QueueCall("Remove", <<index>>, r.ret, r.panic)
            /\ UNCHANGED besideQueue

CallRemovePriority ==
    \E p \in Priorities :
        LET r == RemovePriority(pq, p)
        IN  /\ pq' = r.q
            /\ qlast' = QueueCall("RemovePriority", <<p>>, r.ret, r.panic)
            /\ UNCHANGED besideQueue

\* DequeueRandom with each index r.Intn can give (none is drawn from an empty
\* queue).
CallDequeueRandom ==
    \E index \in 0..(IF pq.heap = <<>> THEN 0 ELSE Len(pq.heap) - 1) :
        LET r == DequeueRandom(pq, index)
        IN  /\ pq' = r.q
            /\ qlast' = QueueCall("DequeueRandom", <<index>>, r.ret, r.panic)
            /\ UNCHANGED besideQueue

\* FilterOnce with a filter that accepts the values of a set.
CallFilterOnce ==
    \E filter \in SUBSET Values :
        LET r == FilterOnce(pq, filter)
        IN  /\ pq' = r.q
            /\ qlast' = QueueCall("FilterOnce", filter, r.ret, r.panic)
            /\ UNCHANGED besideQueue

InitOnce == Init /\ now = Time(hourSeconds, 0)

NextQueue ==
    \/ CallEnqueue
    \/ CallPeek
    \/ CallPeekIndex
    \/ CallPop
    \/ CallRemove
    \/ CallRemovePriority
    \/ CallDequeueRandom
    \/ CallFilterOnce

SpecQueue == InitOnce /\ [][NextQueue]_vars

(***************************************************************************)
(* The callers of package epochtime                                        *)
(***************************************************************************)
MaxEpoch == 1

\* The readings of the clock: in each epoch its start, the second after, the
\* middle and the last second.
Walls ==
    {Epoch + n * Period + d : n \in 0..MaxEpoch,
                              d \in {0, 1, Period \div 2, Period - 1}}

\* The underlying clock advances.
Advance ==
    /\ \E t \in Walls : wall < t /\ wall' = t
    /\ UNCHANGED <<reading, inEpoch>>
    /\ UNCHANGED besideEpoch

\* Clock.Now is called and takes its first reading, now := c.c.Now().
NowCache ==
    /\ reading.pc \in {"idle", "done"}
    /\ reading' = Reading("cached", wall, 0, Epochs(0, 0, 0, FALSE))
    /\ UNCHANGED <<wall, inEpoch>>
    /\ UNCHANGED besideEpoch

\* Clock.Now takes its second reading, c.c.Since(Epoch), and returns.
NowReturn ==
    /\ reading.pc = "cached"
    /\ reading' = Reading("done", reading.cached, wall, ClockNow(reading.cached, wall))
    /\ UNCHANGED <<wall, inEpoch>>
    /\ UNCHANGED besideEpoch

NextClock ==
    \/ Advance
    \/ NowCache
    \/ NowReturn

SpecClock == InitOnce /\ [][NextClock]_vars

\* The greatest epoch number whose start, counted in nanoseconds from Epoch,
\* fits a time.Duration.
LastFitting == 854015

AllOnes == [i \in 1..U64Limbs |-> LimbBase - 1]

\* The epoch numbers IsInEpoch is called with: the first ones, the ones at
\* the limit of time.Duration, the greatest uint64.
EpochNumbers ==
    {ToLimbs(n, U64Limbs) : n \in {0, 1, 2, LastFitting, LastFitting + 1}}
        \cup {AllOnes}

\* The start of epoch n in seconds since the Unix epoch.
StartOf(n) ==
    Add64(Mul64(ToLimbs(n, U64Limbs), Period), ToLimbs(Epoch, U64Limbs))

\* The times IsInEpoch is called with: the first second, the second and the
\* last second of some epochs, the second before Epoch, and the uint64 values
\* around the sign bit of int64.
UnixTimes ==
    {Add64(StartOf(n), ToLimbs(d, U64Limbs)) :
        n \in {0, 1, 2, 3, LastFitting, LastFitting + 1, LastFitting + 2},
        d \in {0, 1, Period - 1}}
        \cup {ToLimbs(Epoch - 1, U64Limbs),
              [AllOnes EXCEPT ![U64Limbs] = LimbBase \div 2 - 1],
              [ToLimbs(0, U64Limbs) EXCEPT ![U64Limbs] = LimbBase \div 2],
              AllOnes}

CallIsInEpoch ==
    /\ \E e \in EpochNumbers, t \in UnixTimes :
          inEpoch' = InEpochCall(TRUE, e, t, IsInEpoch(e, t))
    /\ UNCHANGED <<wall, reading>>
    /\ UNCHANGED besideEpoch

NextInEpoch == CallIsInEpoch

SpecInEpoch == InitOnce /\ [][NextInEpoch]_vars

(***************************************************************************)
(* Concurrent callers of package cert.  A call is two steps: it builds     *)
(* (CreateCertificate) or decodes (the others) its Certificate, then it    *)
(* does the rest -- the verifiers read the clock there -- and returns.     *)
(***************************************************************************)
Ops == {"CreateCertificate", "SignMultiCertificate", "VerifyCertificate",
        "VerifyMulti"}

\* The type and the payload the concurrent callers certify.
Subject == <<<<97>>, <<1>>>>

\* One Certificate for all calls, as a package-level variable would be.
SlotShared(p) == 1

\* The Certificate a call works on is its own: cert := new(Certificate), or
\* the literal in CreateCertificate.
Slot(p) == p

\* The rest of a call on its Certificate cert, the clock reading t.
Rest(op, cert, key, t) ==
    LET sig == Signature(PublicKeyBytes(key), Sign(key, message(cert)))
    IN  IF op = "CreateCertificate"
        THEN [out |-> Encode([cert EXCEPT !.Signatures = <<sig>>]),
              ok |-> TRUE, err |-> "none"]
        ELSE IF op = "SignMultiCertificate"
        THEN [out |-> Encode([cert EXCEPT !.Signatures = Append(@, sig)]),
              ok |-> TRUE, err |-> "none"]
        ELSE IF op = "VerifyCertificate"
        THEN [out |-> <<>>,
              ok |-> /\ Len(cert.Signatures) = 1
                     /\ ~Expired(cert.Expiration, t)
                     /\ Verify(key, cert.Signatures[1].Payload, message(cert)),
              err |-> IF Len(cert.Signatures) # 1 THEN "count"
                      ELSE IF Expired(cert.Expiration, t) THEN "expired"
                      ELSE "none"]
        ELSE [out |-> <<>>,
              ok |-> /\ ~Expired(cert.Expiration, t)
                     /\ VerifyMultiFrom(cert, key, 1).ok,
              err |-> IF Expired(cert.Expiration, t) THEN "expired" ELSE "none"]

\* Caller p calls an operation with its key on the blob that is held; the
\* call builds or decodes its Certificate.
Enter(p) ==
    \E op \in Ops :
        /\ calls[p].pc = "idle"
        /\ IF op = "CreateCertificate"
           THEN /\ calls' = [calls EXCEPT ![p] =
                               InFlight("entered", op, p, <<>>, <<>>, FALSE, "none")]
                /\ certs' = [certs EXCEPT ![Slot(p)] =
                               Certificate(ToLimbs(CertVersion, U32Limbs), Subject[1],
                                           Hours(1), CertKeyType, Subject[2], <<>>)]
           ELSE IF Decode(blob).err
           THEN /\ calls' = [calls EXCEPT ![p] =
                               InFlight("done", op, p, blob, <<>>, FALSE, "malformed")]
                /\ UNCHANGED certs
           ELSE /\ calls' = [calls EXCEPT ![p] =
                               InFlight("entered", op, p, blob, <<>>, FALSE, "none")]
                /\ certs' = [certs EXCEPT ![Slot(p)] = Decode(blob).cert]
        /\ UNCHANGED <<certVars, queueVars, epochVars>>

\* The call of caller p does the rest and returns; its Certificate is
\* dropped.
Finish(p) ==
    LET c == calls[p]
        r == Rest(c.op, certs[Slot(p)], c.key, now)
    IN  /\ c.pc = "entered"
        /\ calls' = [calls EXCEPT ![p] =
                        InFlight("done", c.op, c.key, c.in, r.out, r.ok, r.err)]
        /\ certs' = [certs EXCEPT ![Slot(p)] = ZeroCertificate]
        /\ UNCHANGED <<certVars, queueVars, epochVars>>

\* Caller p keeps the certificate it has created as the blob that is held.
Keep(p) ==
    /\ calls[p].pc = "done"
    /\ calls[p].op = "CreateCertificate"
    /\ blob = <<>>
    /\ blob' = calls[p].out
    /\ origin' = "issued"
    /\ issue' = Issue(calls[p].key, Subject[2], Subject[1], Hours(1))
    /\ signers' = <<calls[p].key>>
    /\ calls' = [calls EXCEPT ![p] = Idle]
    /\ UNCHANGED <<now, last, certs, queueVars, epochVars>>

\* Caller p takes the result of its call.
Return(p) ==
    /\ calls[p].pc = "done"
    /\ calls' = [calls EXCEPT ![p] = Idle]
    /\ UNCHANGED <<certVars, certs, queueVars, epochVars>>

NextConcurrent ==
    \/ \E p \in Procs : Enter(p)
    \/ \E p \in Procs : Finish(p)
    \/ \E p \in Procs : Keep(p)
    \/ \E p \in Procs : Return(p)
    \/ Tick

SpecConcurrent == Init /\ [][NextConcurrent]_vars

(***************************************************************************)
(* Notions the properties use                                              *)
(***************************************************************************)
IsVerify(c) == c.op \in {"VerifyCertificate", "VerifyMulti"}

\* The expiry instant expirationHours * 3600 s as a number, without wrapping,
\* and the clock's second count at the same width.
InstantSeconds(expiration) == MulLimbs(expiration, hourSeconds, 0)

ClockSeconds(t) == ToLimbs(t.sec, U64Limbs + 2)

\* The expiry instant lies after, before, at the clock reading t.
InstantAfter(expiration, t) ==
    LimbsLess(ClockSeconds(t), InstantSeconds(expiration))

InstantBefore(expiration, t) ==
    \/ LimbsLess(InstantSeconds(expiration), ClockSeconds(t))
    \/ InstantSeconds(expiration) = ClockSeconds(t) /\ t.nsec > 0

InstantAt(expiration, t) ==
    InstantSeconds(expiration) = ClockSeconds(t) /\ t.nsec = 0

(***************************************************************************)
(* Properties                                                              *)
(***************************************************************************)

\* C1 -- Round trip: for a blob that CreateCertificate made with signing key
\* sk and an expirationHours whose instant expirationHours * 3600 s lies after
\* the current time, VerifyCertificate with pk(sk) returns (true, no error).
RoundTrip ==
    (/\ last.op = "VerifyCertificate"
     /\ origin = "issued"
     /\ Len(signers) = 1
     /\ last.key = issue.key
     /\ InstantAfter(issue.expiration, now))
    => (last.ok /\ last.err = "none")

\* C2 -- Expiration: for a certificate whose expiry instant is strictly in the
\* past, VerifyCertificate (on the issued blob) and VerifyMulti (on the issued
\* blob and on every co-signed one) return (false, expired) for every public
\* key, the signers' keys included.
ExpiredInThePast ==
    (/\ IsVerify(last)
     /\ origin = "issued"
     /\ last.op = "VerifyCertificate" => Len(signers) = 1
     /\ InstantBefore(issue.expiration, now))
    => (~last.ok /\ last.err = "expired")

\* C2, witness: the key that signed the certificate is refused by the strict
\* verifier because the certificate has expired.
ExpiredInThePastWitness ==
    /\ last.op = "VerifyCertificate"
    /\ origin = "issued"
    /\ Len(signers) = 1
    /\ last.key = issue.key
    /\ InstantBefore(issue.expiration, now)
    /\ last.err = "expired"

\* C3 -- Version/algorithm gate: no verifier returns true for a decoded blob
\* whose version is not CertVersion or whose key algorithm is not CertKeyType,
\* also when its signature is valid over its own message.
VersionAlgorithmGate ==
    (/\ IsVerify(last)
     /\ ~Decode(blob).err
     /\ \/ Decode(blob).cert.Version # ToLimbs(CertVersion, U32Limbs)
        \/ Decode(blob).cert.CertKeyType # CertKeyType)
    => ~last.ok

\* C4 -- Multi-signature accumulation: on an unexpired blob made by
\* CreateCertificate with key A and co-signed with key B and then key C,
\* VerifyMulti returns (true, no error) for the public keys of A, B and C and
\* (false, no error) for the public key of a key that never signed.
MultiSignatureAccumulation ==
    (/\ last.op = "VerifyMulti"
     /\ origin = "issued"
     /\ Len(signers) = 3
     /\ ~InstantBefore(issue.expiration, now))
    => (last.err = "none" /\ (last.ok <=> last.key \in Range(signers)))

\* C5 -- Strict vs multi: on a blob with two or more signatures (created, then
\* co-signed) VerifyCertificate returns (false, signature-count error) for
\* every public key, while VerifyMulti on the same unexpired blob returns
\* (true, no error) for each signer's key; and VerifyCertificate returns
\* another result than the count error only when the list has one entry.
StrictVersusMulti ==
    /\ (/\ last.op = "VerifyCertificate"
        /\ origin = "issued"
        /\ Len(signers) >= 2)
       => (~last.ok /\ last.err = "count")
    /\ (/\ last.op = "VerifyMulti"
        /\ origin = "issued"
        /\ Len(signers) >= 2
        /\ last.key \in Range(signers)
        /\ ~InstantBefore(issue.expiration, now))
       => (last.ok /\ last.err = "none")
    /\ (/\ last.op = "VerifyCertificate"
        /\ ~Decode(blob).err
        /\ last.err # "count")
       => Len(Decode(blob).cert.Signatures) = 1

\* The identities of a signature list, in order.
Identities(sigs) == [i \in DOMAIN sigs |-> sigs[i].Identity]

\* C6 -- Append-only signature list: CreateCertificate yields exactly one
\* signature, with the identity of the signing key; every successful
\* SignMultiCertificate yields the input's list, unchanged and in order,
\* followed by one new entry with the identity of the signing key, also when
\* that identity is already in the list; so the list of a blob that was
\* created and co-signed names its signers in call order.
AppendOnly ==
    /\ last.op = "CreateCertificate" =>
          Identities(Decode(last.out).cert.Signatures)
              = <<PublicKeyBytes(last.key)>>
    /\ (last.op = "SignMultiCertificate" /\ last.err = "none") =>
          LET before == Decode(last.in).cert.Signatures
              after  == Decode(last.out).cert.Signatures
          IN  /\ Len(after) = Len(before) + 1
              /\ SubSeq(after, 1, Len(before)) = before
              /\ after[Len(after)].Identity = PublicKeyBytes(last.key)
    /\ origin \in {"issued", "tampered", "endorsed"} =>
          Identities(Decode(blob).cert.Signatures)
              = [i \in DOMAIN signers |-> PublicKeyBytes(signers[i])]

\* C6, witness: a key that is already in the list has co-signed again and the
\* list has three entries.
AppendOnlyWitness ==
    /\ last.op = "SignMultiCertificate"
    /\ last.err = "none"
    /\ Len(signers) = 3
    /\ last.key \in Range(SubSeq(signers, 1, 2))
    /\ Len(Decode(blob).cert.Signatures) = 3

\* C7 -- Signatures are not signed: SignMultiCertificate leaves version, type,
\* expiration, key algorithm and payload as they are, so the message of its
\* output is the message of its input, and every signature that verified
\* before the co-sign verifies after it.
FrameOfCoSigning ==
    (last.op = "SignMultiCertificate" /\ last.err = "none") =>
        LET a == Decode(last.in).cert
            b == Decode(last.out).cert
        IN  /\ a.Version = b.Version
            /\ a.Type = b.Type
            /\ a.Expiration = b.Expiration
            /\ a.CertKeyType = b.CertKeyType
            /\ a.Certified = b.Certified
            /\ message(a) = message(b)
            /\ \A i \in DOMAIN a.Signatures, k \in Keys :
                  Verify(k, a.Signatures[i].Payload, message(a))
                      => /\ i \in DOMAIN b.Signatures
                         /\ Verify(k, b.Signatures[i].Payload, message(b))
            /\ \A k \in Keys, t \in Clocks :
                  VerifyMulti(last.in, k, t).ok => VerifyMulti(last.out, k, t).ok

\* C7, witness: a blob with two verifying signatures has been co-signed.
FrameOfCoSigningWitness ==
    /\ last.op = "SignMultiCertificate"
    /\ last.err = "none"
    /\ Len(signers) = 3
    /\ \A k \in Range(signers) : VerifyMulti(last.out, k, Time(0, 0)).ok

\* C8 -- Wrong key is a result, not a fault: for an unexpired blob that
\* CreateCertificate made with signing key sk, VerifyCertificate with another
\* public key than pk(sk) returns (false, no error).
WrongKeyIsAResult ==
    (/\ last.op = "VerifyCertificate"
     /\ origin = "issued"
     /\ Len(signers) = 1
     /\ last.key # issue.key
     /\ ~InstantBefore(issue.expiration, now))
    => (~last.ok /\ last.err = "none")

\* C9 -- Tamper sensitivity: after one bit of the payload, the type, the
\* expiration or the key algorithm of a created (and possibly co-signed) blob
\* is flipped and the blob is serialized again with its signatures, neither
\* verifier returns true, whichever public key it is given.
TamperSensitivity ==
    (IsVerify(last) /\ origin = "tampered") => ~last.ok

\* C9, witness: the tampered blob has two signatures and has not expired;
\* VerifyMulti finds the entry of a signer and its signature does not verify.
TamperSensitivityWitness ==
    /\ last.op = "VerifyMulti"
    /\ origin = "tampered"
    /\ Len(signers) = 2
    /\ last.key \in Range(signers)
    /\ last.err = "none"
    /\ ~last.ok

\* The second count the verifiers compare with the clock: the instant
\* expirationHours * 3600 s modulo 2^64, read as a signed 64-bit number.
\* It lies before the clock reading t.
SignedSecondsBefore(expiration, t) ==
    LET secs == SubSeq(InstantSeconds(expiration), 1, U64Limbs)
    IN  \/ secs[U64Limbs] >= LimbBase \div 2
        \/ LimbsLess(secs, ToLimbs(t.sec, U64Limbs))
        \/ secs = ToLimbs(t.sec, U64Limbs) /\ t.nsec > 0

NoClockGate ==
    /\ last.op = "CreateCertificate" =>
          /\ last.ok
          /\ last.err = "none"
          /\ ~Decode(last.out).err
          /\ Decode(last.out).cert.Expiration = issue.expiration
    /\ (last.op = "SignMultiCertificate" /\ ~Decode(last.in).err) =>
          /\ last.ok
          /\ last.err = "none"
          /\ ~Decode(last.out).err
          /\ Decode(last.out).cert.Expiration = issue.expiration

\* C11, witness: a certificate whose expiry instant has passed, and that both
\* verifiers refuse as expired, has been co-signed.
NoClockGateWitness ==
    /\ last.op = "SignMultiCertificate"
    /\ last.err = "none"
    /\ InstantBefore(issue.expiration, now)
    /\ VerifyMulti(last.in, issue.key, now).err = "expired"
    /\ VerifyMulti(last.out, last.key, now).err = "expired"
    /\ Len(Decode(last.out).cert.Signatures) = 2

\* The blob that co-signing raw with the keys of a sequence, in order, gives.
RECURSIVE CoSigned(_, _)
CoSigned(raw, keys) ==
    IF keys = <<>> THEN raw
    ELSE CoSigned(SignMultiCertificate(Head(keys), raw).out, Tail(keys))

ExpiryDoesNotWrap ==
    (/\ IsVerify(last)
     /\ origin = "issued"
     /\ last.op = "VerifyCertificate" => Len(signers) = 1)
    => /\ InstantAfter(issue.expiration, now) => last.err # "expired"
       /\ InstantBefore(issue.expiration, now) => last.err = "expired"

\* The certificate c with the first byte of its payload moved to the end of
\* its key algorithm.
Resplit(c) ==
    [c EXCEPT !.CertKeyType = Append(c.CertKeyType, Head(c.Certified)),
              !.Certified = Tail(c.Certified)]

\* C19 -- Canonical-message ambiguity: a decodable blob with a payload of one
\* byte or more has a twin that differs from it in key algorithm and payload
\* and has the same canonical message, and both verifiers give the twin the
\* result they give the blob, for each public key at the current time.
CanonicalMessageAmbiguity ==
    (~Decode(blob).err /\ Decode(blob).cert.Certified # <<>>) =>
        LET c     == Decode(blob).cert
            twin  == Resplit(c)
            other == Encode(twin)
        IN  /\ <<c.Type, c.CertKeyType, c.Certified>>
                   # <<twin.Type, twin.CertKeyType, twin.Certified>>
            /\ message(twin) = message(c)
            /\ \A k \in IssuerKeys :
                  /\ VerifyCertificate(other, k, now) = VerifyCertificate(blob, k, now)
                  /\ VerifyMulti(other, k, now) = VerifyMulti(blob, k, now)

\* C19, witness: VerifyCertificate has accepted a certificate of key algorithm
\* "ed2551" whose payload begins with "9"; the signature is equally accepted
\* for the certificate of key algorithm "ed25519" and the rest of the payload.
CanonicalMessageAmbiguityWitness ==
    /\ last.op = "VerifyCertificate"
    /\ last.ok
    /\ origin = "foreign"
    /\ Decode(blob).cert.CertKeyType = OtherKeyType
    /\ Resplit(Decode(blob).cert).CertKeyType = CertKeyType
    /\ Resplit(Decode(blob).cert).Certified = <<1>>
    /\ VerifyCertificate(Encode(Resplit(Decode(blob).cert)), last.key, now).ok

\* C18 -- Check order: VerifyCertificate decodes, then counts the signatures,
\* then looks at the expiration, then checks the signature; VerifyMulti
\* decodes, then looks at the expiration, then looks up the identity and
\* checks the signature; the outcome is that of the first failing check.  A
\* blob that does not decode gives an error from both verifiers and from
\* SignMultiCertificate, which returns no blob; a blob whose expiry instant has
\* passed gives the expired error and never (false, no error), also when its
\* signature is invalid or the identity is absent.
CheckOrder ==
    LET d       == Decode(blob)
        count   == Len(d.cert.Signatures)
        passed  == InstantBefore(d.cert.Expiration, now)
        refused == SignedSecondsBefore(d.cert.Expiration, now)
    IN  /\ last.op = "VerifyCertificate" =>
              /\ d.err => (~last.ok /\ last.err = "malformed")
              /\ (~d.err /\ count # 1) => (~last.ok /\ last.err = "count")
              /\ (~d.err /\ count = 1 /\ passed) =>
                    (~last.ok /\ last.err = "expired")
              /\ (~d.err /\ count = 1 /\ ~refused) => last.err = "none"
        /\ last.op = "VerifyMulti" =>
              /\ d.err => (~last.ok /\ last.err = "malformed")
              /\ (~d.err /\ passed) => (~last.ok /\ last.err = "expired")
              /\ (~d.err /\ ~refused) => last.err = "none"
        /\ (last.op = "SignMultiCertificate" /\ Decode(last.in).err) =>
              /\ ~last.ok
              /\ last.err = "malformed"
              /\ last.out = <<>>
              /\ blob = last.in

\* C18, witness: VerifyCertificate has refused as expired a blob with one
\* signature that is invalid for the key it was given.
CheckOrderWitness ==
    /\ last.op = "VerifyCertificate"
    /\ origin = "tampered"
    /\ ~Decode(blob).err
    /\ Len(Decode(blob).cert.Signatures) = 1
    /\ InstantBefore(Decode(blob).cert.Expiration, now)
    /\ ~Verify(last.key, Decode(blob).cert.Signatures[1].Payload,
               message(Decode(blob).cert))
    /\ last.key = issue.key
    /\ last.err = "expired"

\* The number of places of a heap slice that hold the entry e.
Count(h, e) == Cardinality({i \in DOMAIN h : h[i] = e})

\* The slice after holds the entries of the slice before but for one e.
OneLess(before, e, after) ==
    \A x \in Range(before) \cup Range(after) \cup {e} :
        Count(after, x) = Count(before, x) - (IF x = e THEN 1 ELSE 0)

\* C14 -- Priority queue ordering: on a queue that holds entries, Peek and Pop
\* return an entry of the queue whose priority is at most that of every entry
\* of the queue; Peek leaves the queue as it is and Pop takes out the entry it
\* returns and no other; of two Pops in a row the second returns a priority
\* that is not less than the first.
PriorityOrdering ==
    [][/\ qlast'.op = "Peek" =>
            /\ pq' = pq
            /\ pq.heap # <<>> =>
                  /\ qlast'.ret # <<>>
                  /\ qlast'.ret[1] \in Range(pq.heap)
                  /\ \A e \in Range(pq.heap) :
                        qlast'.ret[1].Priority <= e.Priority
       /\ (qlast'.op = "Pop" /\ pq.heap # <<>>) =>
            /\ qlast'.ret # <<>>
            /\ qlast'.ret[1] \in Range(pq.heap)
            /\ \A e \in Range(pq.heap) : qlast'.ret[1].Priority <= e.Priority
            /\ OneLess(pq.heap, qlast'.ret[1], pq'.heap)
       /\ (/\ qlast.op = "Pop"
           /\ qlast'.op = "Pop"
           /\ qlast.ret # <<>>
           /\ qlast'.ret # <<>>) =>
            qlast.ret[1].Priority <= qlast'.ret[1].Priority]_vars

\* C14, witness: Pop has returned an entry of priority 2 from a queue that
\* still holds two entries of priority 3.
PriorityOrderingWitness ==
    /\ qlast.op = "Pop"
    /\ qlast.ret # <<>>
    /\ qlast.ret[1].Priority = 2
    /\ Len(pq.heap) = 2
    /\ \A e \in Range(pq.heap) : e.Priority = 3

\* C15 -- RemovePriority(p): when the queue holds an entry of priority p,
\* RemovePriority(p) returns an entry of the queue whose priority is p and
\* takes out that entry and no other; when it holds none, RemovePriority(p)
\* returns nil and leaves the queue as it is.
RemovePriorityExact ==
    [][qlast'.op = "RemovePriority" =>
          LET p == qlast'.arg[1]
          IN  IF \E e \in Range(pq.heap) : e.Priority = p
              THEN /\ ~qlast'.panic
                   /\ qlast'.ret # <<>>
                   /\ qlast'.ret[1] \in Range(pq.heap)
                   /\ qlast'.ret[1].Priority = p
                   /\ OneLess(pq.heap, qlast'.ret[1], pq'.heap)
              ELSE /\ ~qlast'.panic
                   /\ qlast'.ret = <<>>
                   /\ pq' = pq]_vars

\* C16 -- Epoch clock consistency: what Clock.Now returns describes one
\* instant between its two readings of the clock: current is the epoch of the
\* instant, elapsed the time since the epoch began with 0 <= elapsed < Period,
\* and till = Period - elapsed with 0 < till <= Period -- also when the clock
\* advances between the two readings.
EpochClockConsistency ==
    reading.pc = "done" =>
        LET r       == reading.ret
            instant == Epoch + r.current * Period + r.elapsed
        IN  /\ ~r.panic
            /\ reading.cached <= instant
            /\ instant <= reading.since
            /\ r.current = (instant - Epoch) \div Period
            /\ 0 <= r.elapsed
            /\ r.elapsed < Period
            /\ r.till = Period - r.elapsed
            /\ 0 < r.till
            /\ r.till <= Period

\* Epoch + e * Period <= t < Epoch + (e + 1) * Period, as numbers.
Contains(e, t) ==
    LET wide == U64Limbs + 2
        from == AddLimbs(MulLimbs(e, Period, 0), ToLimbs(Epoch, wide), 0)
        to   == AddLimbs(MulLimbs(e, Period, Period), ToLimbs(Epoch, wide), 0)
        at   == t \o ToLimbs(0, 2)
    IN  ~LimbsLess(at, from) /\ LimbsLess(at, to)

\* C17 -- IsInEpoch(e, t) returns true if and only if
\* Epoch + e * Period <= t < Epoch + (e + 1) * Period, t in seconds since the
\* Unix epoch, for every uint64 e and t.
InEpochExact ==
    inEpoch.called => (inEpoch.ret <=> Contains(inEpoch.e, inEpoch.t))

\* C13 -- Interference freedom: whatever calls run at the same time and
\* however their steps interleave, a call that returns gives the result the
\* operation gives alone on the same input at the clock reading it took; a
\* co-signer's output holds the signatures of its input followed by its own
\* and no other.
InterferenceFreedom ==
    [][\A p \in Procs :
          (calls[p].pc # "done" /\ calls'[p].pc = "done") =>
              LET c == calls'[p]
              IN  /\ c.op = "CreateCertificate" =>
                        /\ c.out = CreateCertificate(c.key, Subject[2], Subject[1],
                                                     Hours(1))
                        /\ c.ok
                        /\ c.err = "none"
                  /\ c.op = "SignMultiCertificate" =>
                        /\ c.out = SignMultiCertificate(c.key, c.in).out
                        /\ c.err = SignMultiCertificate(c.key, c.in).err
                        /\ c.err = "none" =>
                              Identities(Decode(c.out).cert.Signatures)
                                  = Append(Identities(Decode(c.in).cert.Signatures),
                                           PublicKeyBytes(c.key))
                  /\ c.op = "VerifyCertificate" =>
                        Result(c.ok, c.err) = VerifyCertificate(c.in, c.key, now)
                  /\ c.op = "VerifyMulti" =>
                        Result(c.ok, c.err) = VerifyMulti(c.in, c.key, now)]_vars

\* C13, witness: two co-signers have worked from the same blob at the same
\* time and each holds that blob with its own signature added.
InterferenceFreedomWitness ==
    /\ calls[1].pc = "done"
    /\ calls[2].pc = "done"
    /\ calls[1].op = "SignMultiCertificate"
    /\ calls[2].op = "SignMultiCertificate"
    /\ calls[1].in # <<>>
    /\ calls[1].in = calls[2].in
    /\ calls[1].out = SignMultiCertificate(1, calls[1].in).out
    /\ calls[2].out = SignMultiCertificate(2, calls[2].in).out
    /\ calls[1].out # calls[2].out

\* The verifiers' results for the held blob and key k at the clock reading t.
Verdicts(k, t) == <<VerifyCertificate(blob, k, t), VerifyMulti(blob, k, t)>>

\* Between the clock readings t and u, t before u: a verifier that returned
\* the expired error at t returns it at u, and when u is before the expiry
\* instant each verifier returns at u what it returned at t.
Monotone(k, t, u) ==
    /\ \A v \in 1..2 :
          Verdicts(k, t)[v].err = "expired" => Verdicts(k, u)[v].err = "expired"
    /\ InstantAfter(issue.expiration, u) => Verdicts(k, t) = Verdicts(k, u)

\* C21 -- Validity is monotone in time: for a fixed blob and public key, as
\* the clock advances, a verifier that has returned the expired error returns
\* it at every later time, and before the expiry instant expirationHours *
\* 3600 s the result of each verifier is the same at every time.
ValidityMonotone ==
    [][(origin = "issued" /\ TimeLess(now, now'))
          => \A k \in IssuerKeys : Monotone(k, now, now')]_vars

\* The places of the list sigs whose identity is the public key of k.
Matches(sigs, k) == {i \in 1..Len(sigs) : sigs[i].Identity = PublicKeyBytes(k)}

\* The first of them.
FirstMatch(sigs, k) ==
    CHOOSE i \in Matches(sigs, k) : \A j \in Matches(sigs, k) : i <= j

\* C22 -- First match decides: on a blob whose expiry instant has not passed
\* and whose list has several entries with the identity of the given public
\* key, VerifyMulti returns, with no error, whether the signature of the first
\* such entry is valid, whatever the later entries are.
FirstMatchDecides ==
    LET c == Decode(blob).cert
    IN  (/\ last.op = "VerifyMulti"
         /\ ~Decode(blob).err
         /\ ~InstantBefore(c.Expiration, now)
         /\ Cardinality(Matches(c.Signatures, last.key)) > 1)
        => /\ last.err = "none"
           /\ last.ok = Verify(last.key,
                               c.Signatures[FirstMatch(c.Signatures, last.key)].Payload,
                               message(c))

\* The held blob decodes, has exactly one signature and its expiry instant
\* has not passed.
SingleUnexpired ==
    /\ ~Decode(blob).err
    /\ Len(Decode(blob).cert.Signatures) = 1
    /\ ~InstantBefore(Decode(blob).cert.Expiration, now)

\* What the other verifier returns where the last call was a verifier's.
Other ==
    IF last.op = "VerifyCertificate" THEN VerifyMulti(blob, last.key, now)
    ELSE VerifyCertificate(blob, last.key, now)

MapKeys(q) == {p \in Priorities : q.m[p] # NoIndex}

HeldPriorities(q) == {q.heap[i].Priority : i \in 1..Len(q.heap)}

\* The map of q has exactly the priorities of the heap as keys, and each key's
\* index is one of the heap where an entry of that priority is.
IndexMapHolds(q) ==
    /\ MapKeys(q) = HeldPriorities(q)
    /\ \A p \in MapKeys(q) :
          /\ q.m[p] >= 0
          /\ q.m[p] < Len(q.heap)
          /\ q.heap[q.m[p] + 1].Priority = p

\* C24 -- Priority index map invariant: after any sequence of Enqueue, Pop,
\* Remove, RemovePriority, DequeueRandom and FilterOnce the map m has exactly
\* the priorities of the entries of the heap as its keys, and for every key p
\* the index m[p] is within the heap and heap[m[p]] has priority p.
IndexMapInvariant == IndexMapHolds(pq)

\* No two entries of the heap of q have the same priority.
DistinctPriorities(q) == Cardinality(HeldPriorities(q)) = Len(q.heap)

\* C24 apart from priorities enqueued twice: on a queue whose entries have
\* distinct priorities every operation keeps the invariant of the map, and
\* every operation but Enqueue at a priority the queue holds keeps the
\* priorities distinct.
IndexMapKeptWithoutRepeats ==
    [][(/\ IndexMapHolds(pq)
        /\ DistinctPriorities(pq)
        /\ ~(qlast'.op = "Enqueue" /\ qlast'.arg[1] \in HeldPriorities(pq)))
          => (IndexMapHolds(pq') /\ DistinctPriorities(pq'))]_vars

\* The operations that take something from the queue or look into it.
Takers == {"Pop", "Peek", "PeekIndex", "Remove", "RemovePriority",
           "DequeueRandom", "FilterOnce"}

\* C25 -- Empty-queue operations are safe: on a queue with no entries Pop,
\* Peek, PeekIndex, Remove, RemovePriority and DequeueRandom each return nil
\* without panicking and leave the heap and the map empty, and FilterOnce
\* calls the filter zero times.
SafeOnEmpty ==
    [][(pq.heap = <<>> /\ qlast'.op \in Takers)
          => /\ qlast'.ret = <<>>
             /\ ~qlast'.panic
             /\ pq'.heap = <<>>
             /\ MapKeys(pq') = {}
             /\ qlast'.op = "FilterOnce" => FilterCalls(pq, qlast'.arg) = 0]_vars

\* C25, witness: Remove(0) on the empty queue has returned nil without
\* panicking and the queue is as New made it.
SafeOnEmptyWitness ==
    /\ pq = New
    /\ qlast = QueueCall("Remove", <<0>>, <<>>, FALSE)

(***************************************************************************)
(* The expiry arithmetic wraps (C20): C1, C4, C5, C8, C21, C22 fail for an  *)
(* expirationHours whose second count does not fit a signed 64-bit number. *)
(* For every other expirationHours they hold.                              *)
(***************************************************************************)
\* The second count of the held blob's expiration fits a signed 64-bit number.
SecondsFit ==
    /\ SubSeq(InstantSeconds(issue.expiration), U64Limbs + 1, U64Limbs + 2)
           = ToLimbs(0, 2)
    /\ InstantSeconds(issue.expiration)[U64Limbs] < LimbBase \div 2

\* The second count of the expiration in the held blob fits a signed 64-bit
\* number.
DecodedSecondsFit ==
    LET e == Decode(blob).cert.Expiration
    IN  /\ SubSeq(InstantSeconds(e), U64Limbs + 1, U64Limbs + 2) = ToLimbs(0, 2)
        /\ InstantSeconds(e)[U64Limbs] < LimbBase \div 2

\* C22 for the expirations whose second count fits.
FirstMatchWhenSecondsFit == DecodedSecondsFit => FirstMatchDecides

\* C22 when the second count fits: VerifyMulti has returned false for a key
\* whose first entry is invalid and whose later entry is valid.
LaterValidEntryIgnored ==
    LET c == Decode(blob).cert
    IN  /\ last.op = "VerifyMulti"
        /\ ~Decode(blob).err
        /\ DecodedSecondsFit
        /\ ~InstantBefore(c.Expiration, now)
        /\ Cardinality(Matches(c.Signatures, last.key)) > 1
        /\ \E i \in Matches(c.Signatures, last.key) :
              Verify(last.key, c.Signatures[i].Payload, message(c))
        /\ ~last.ok
        /\ last.err = "none"

\* C21 for the expirations whose second count fits.
MonotoneWhenSecondsFit ==
    [][(origin = "issued" /\ TimeLess(now, now') /\ SecondsFit)
          => \A k \in IssuerKeys : Monotone(k, now, now')]_vars

\* C1, C4, C5 and C8 for the expirations whose second count fits.
HoldWhenSecondsFit ==
    SecondsFit => /\ RoundTrip
                  /\ MultiSignatureAccumulation
                  /\ StrictVersusMulti
                  /\ WrongKeyIsAResult

====
